---- MODULE Spec2Model ----
(***************************************************************************)
(* Chat API (chat-api/app): request validation (schemas/chat.py), the      *)
(* orchestration layer (services/chat_service.py), the HTTP boundary       *)
(* (routers/chats.py, main.py), the per-request session (database.py) and  *)
(* the relational store with its ORM mapping (models/chat.py).             *)
(*                                                                         *)
(* A string is a sequence of runs [c |-> character, n |-> repetitions],    *)
(* n >= 1, so that the program's real length limits (200 and 5000) are     *)
(* kept while the inputs stay enumerable.                                  *)
(***************************************************************************)
EXTENDS Integers, Sequences, FiniteSets, TLC

\* ---------------------------------------------------------------- bounds
MaxChats == 1
MaxMsgs == 2
MaxTime == 1
MaxPad == 2
MaxInFlight == 2
MaxConcMsgs == 1
MaxIdChats == 2

\* ------------------------------------------------------ program constants
TitleMax == 200
TextMax == 5000
LimitMin == 1
LimitMax == 100
OffsetMin == 0

\* ---------------------------------------------------------------- strings
Whitespace == {" ", "\t"}

isspace(c) == c \in Whitespace

Run(c, n) == IF n > 0 THEN <<[c |-> c, n |-> n]>> ELSE <<>>

RECURSIVE StrLen(_)
StrLen(s) == IF s = <<>> THEN 0 ELSE Head(s).n + StrLen(Tail(s))

RECURSIVE lstrip(_)
lstrip(s) ==
    IF s = <<>> THEN s
    ELSE IF isspace(Head(s).c) THEN lstrip(Tail(s)) ELSE s

\* a right trim that removes one trailing whitespace character only
rstrip_OneChar(s) ==
    IF s = <<>> THEN s
    ELSE IF isspace(s[Len(s)].c)
         THEN SubSeq(s, 1, Len(s) - 1) \o Run(s[Len(s)].c, s[Len(s)].n - 1)
         ELSE s

RECURSIVE rstrip(_)
rstrip(s) ==
    IF s = <<>> THEN s
    ELSE IF isspace(s[Len(s)].c) THEN rstrip(SubSeq(s, 1, Len(s) - 1)) ELSE s

\* str.strip(): leading and trailing whitespace removed, inner kept
strip(s) == rstrip(lstrip(s))

Min(a, b) == IF a < b THEN a ELSE b
Max(a, b) == IF a > b THEN a ELSE b
Range(s) == {s[i] : i \in 1..Len(s)}

\* ------------------------------------------------------------- validation
Rejected == [ok |-> FALSE, value |-> <<>>]
Accepted(v) == [ok |-> TRUE, value |-> v]

\* Field(min_length=..., max_length=...) on the raw string
FieldConstraint(v, lo, hi) == StrLen(v) >= lo /\ StrLen(v) <= hi

\* a validator that returns its argument instead of the trimmed string
trim_and_validate_title_ReturnsRaw(v) ==
    LET trimmed == strip(v) IN
    IF trimmed = <<>> THEN Rejected
    ELSE IF StrLen(trimmed) > TitleMax THEN Rejected
    ELSE Accepted(v)

\* the 'after' validator of ChatCreate.title
trim_and_validate_title(v) ==
    LET trimmed == strip(v) IN
    IF trimmed = <<>> THEN Rejected
    ELSE IF StrLen(trimmed) > TitleMax THEN Rejected
    ELSE Accepted(trimmed)

\* a validator without the check for an empty trimmed text
trim_and_validate_text_NoEmptyCheck(v) ==
    LET trimmed == strip(v) IN
    IF StrLen(trimmed) > TextMax THEN Rejected
    ELSE Accepted(trimmed)

\* the 'after' validator of MessageCreate.text
trim_and_validate_text(v) ==
    LET trimmed == strip(v) IN
    IF trimmed = <<>> THEN Rejected
    ELSE IF StrLen(trimmed) > TextMax THEN Rejected
    ELSE Accepted(trimmed)

\* a schema whose validator is not run: only the field constraints
ChatCreate_ConstraintsOnly(raw) ==
    IF ~FieldConstraint(raw, 1, TitleMax) THEN Rejected
    ELSE Accepted(strip(raw))

\* ChatCreate(title=raw): the field constraints, then the validator
ChatCreate(raw) ==
    IF ~FieldConstraint(raw, 1, TitleMax) THEN Rejected
    ELSE trim_and_validate_title(raw)

\* MessageCreate(text=raw)
MessageCreate(raw) ==
    IF ~FieldConstraint(raw, 1, TextMax) THEN Rejected
    ELSE trim_and_validate_text(raw)

\* query constraints without le=100
QueryParamsValid_NoUpperBound(limit, offset) ==
    limit >= LimitMin /\ offset >= OffsetMin

\* Query(ge=1, le=100) for limit, Query(ge=0) for offset
QueryParamsValid(limit, offset) ==
    limit >= LimitMin /\ limit <= LimitMax /\ offset >= OffsetMin

\* ------------------------------------------------------------------ inputs
Padded(l, c, b, t) == Run(" ", l) \o Run(c, b) \o Run("\t", t)

RawTitles ==
    { Run(" ", 3), Run("a", 1), Padded(2, "a", 1, 2), Run("a", TitleMax + 1),
      Padded(2, "a", TitleMax, 2) }

RawTexts ==
    { Run("\t", 2), Run("a", 1), Padded(1, "a", 1, 1), Run("a", TextMax + 1),
      Padded(2, "a", TextMax, 2) }

\* inputs of the schema validation alone: every padding up to MaxPad around
\* bodies at the edges of the length limit, with and without inner whitespace
Bodies(max) ==
    { Run("a", b) : b \in {0, 1, 2, max - 1, max, max + 1} }
    \cup { Run("a", 1) \o Run(" ", 1) \o Run("b", max - 2) }

GenStrings(max) ==
    { Run(" ", l) \o body \o Run("\t", t) :
        l \in 0..MaxPad, t \in 0..MaxPad, body \in Bodies(max) }

ChatIds == 1..(MaxChats + 1)
\* <<limit, offset>> of the GET requests: pages inside, across and beyond
\* the stored messages, and values outside the accepted ranges
PageParams ==
    { <<1, 0>>, <<1, 1>>, <<2, 0>>, <<2, 1>>, <<100, 0>>, <<100, 2>>,
      <<100, 1000>>, <<0, 0>>, <<101, 0>>, <<20, -1>> }

\* the inputs of the requests that overlap: an accepted and a rejected
\* title and text, a page of everything, a page of one row and a rejected page
ConcTitles == { Run("a", 1), Run(" ", 3) }

ConcTexts == { Run("a", 1), Run("\t", 2) }

ConcParams == { <<100, 0>>, <<1, 0>>, <<0, 0>> }

\* ------------------------------------------------------------------- state
VARIABLES
    chats,      \* table chats: id -> [id, title, created_at]
    messages,   \* table messages: set of [id, chat_id, text, created_at]
    chat_seq,   \* last value of the chats.id sequence
    msg_seq,    \* last value of the messages.id sequence
    now,        \* the store's clock (func.now())
    last,       \* the latest request and its response
    posted,     \* history: chat id of every message created with 201, by message id
    deleted,    \* history: chat id -> rows removed with it, for each DeleteChat answered 204
    parsed,     \* the latest schema validation: [field, raw, ok, value]
    txs,        \* the requests in flight: slot -> session and transaction state
    ok204       \* history: chat id -> number of DeleteChat requests answered 204

vars == <<chats, messages, chat_seq, msg_seq, now, last, posted, deleted, parsed,
          txs, ok204>>

store == <<chats, messages>>

NoRequest ==
    [op |-> "none", chat_id |-> 0, raw |-> <<>>, limit |-> 0, offset |-> 0,
     status |-> 0, chat |-> <<>>, messages |-> <<>>, svc |-> FALSE,
     queries |-> 0, read |-> {}, raised |-> "none", detail |-> ""]

NoParse == [field |-> "none", raw |-> <<>>, ok |-> FALSE, value |-> <<>>]

Response(op, chat_id, raw, limit, offset, status, chat, msgs, svc, queries) ==
    [op |-> op, chat_id |-> chat_id, raw |-> raw, limit |-> limit,
     offset |-> offset, status |-> status, chat |-> chat, messages |-> msgs,
     svc |-> svc, queries |-> queries, read |-> {}, raised |-> "none", detail |-> ""]

\* the response of a request that read the message rows rows from the store
Reading(resp, rows) == [resp EXCEPT !.read = {m.id : m \in rows}]

\* the request slots, and a slot with no request in flight
Slots == 1..MaxInFlight

Idle ==
    [op |-> "none", chat_id |-> 0, raw |-> <<>>, pc |-> "idle", ts |-> 0,
     row |-> <<>>, del |-> FALSE]

\* ------------------------------------------------------------------- store
\* select(Chat).where(Chat.id == chat_id) ... scalar_one_or_none()
get_chat_by_id(cs, chat_id) ==
    IF chat_id \in DOMAIN cs THEN <<cs[chat_id]>> ELSE <<>>

\* relationship(lazy="selectin"): every load of a Chat loads its messages
selectin_load(ms, chat_id) == {m \in ms : m.chat_id = chat_id}

\* the orderings an ORDER BY created_at DESC may return: each row is one of
\* those with the greatest created_at among the rows not yet returned, so
\* rows with equal created_at come in any order
RECURSIVE OrderByCreatedAtDesc(_)
OrderByCreatedAtDesc(rows) ==
    IF rows = {} THEN {<<>>}
    ELSE UNION { { <<r>> \o rest : rest \in OrderByCreatedAtDesc(rows \ {r}) } :
                 r \in {x \in rows : \A y \in rows : x.created_at >= y.created_at} }

\* .limit(limit).offset(offset)
LimitOffset(s, limit, offset) ==
    SubSeq(s, offset + 1, Min(offset + limit, Len(s)))

\* select(Message).where(chat_id).order_by(desc(created_at)).limit().offset()
messages_query(ms, chat_id, limit, offset) ==
    { LimitOffset(s, limit, offset) :
        s \in OrderByCreatedAtDesc({m \in ms : m.chat_id = chat_id}) }

\* chat.messages = page with cascade="all, delete-orphan": the loaded
\* messages that are not in the new collection become orphans, which the
\* flush deletes
delete_orphans(loaded, page) == loaded \ Range(page)

\* a foreign key without ondelete="CASCADE" enforcement
CascadeDelete_NoCascade(ms, chat_id) == ms

\* ForeignKey("chats.id", ondelete="CASCADE"): rows removed with the chat
CascadeDelete(ms, chat_id) == {m \in ms : m.chat_id # chat_id}

\* a chat_id column without its foreign key
ForeignKeyHolds_NotEnforced(cs, chat_id) == TRUE

\* ForeignKey("chats.id"): an insert must reference an existing chat
ForeignKeyHolds(cs, chat_id) == chat_id \in DOMAIN cs

\* a key generator that hands out the latest key again
NextId_Reuses(seq) == IF seq = 0 THEN 1 ELSE seq

\* primary key sequences
NextId(seq) == seq + 1

\* a session dependency that commits whatever happened
get_db_CommitsOnRaise(before, after, raised) == after

\* get_db: commit when the handler returned, rollback when it raised
get_db(before, after, raised) == IF raised THEN before ELSE after

Without(f, k) == [x \in (DOMAIN f) \ {k} |-> f[x]]

\* ----------------------------------------------------------- orchestration
\* ChatService.create_chat: the row added, flushed and refreshed
create_chat(id, clock, title) ==
    [id |-> id, title |-> title, created_at |-> clock]

\* db.add(message); flush; refresh: the INSERT, checked by the foreign key
insert_message(cs, id, clock, chat_id, text) ==
    IF ~ForeignKeyHolds(cs, chat_id)
    THEN [raised |-> "IntegrityError", row |-> <<>>]
    ELSE [raised |-> "none",
          row |-> <<[id |-> id, chat_id |-> chat_id, text |-> text,
                     created_at |-> clock]>>]

\* create_message without the lookup of the chat
create_message_NoExistenceCheck(cs, id, clock, chat_id, text) ==
    insert_message(cs, id, clock, chat_id, text)

\* ChatService.create_message
create_message(cs, id, clock, chat_id, text) ==
    IF get_chat_by_id(cs, chat_id) = <<>>
    THEN [raised |-> "ChatNotFound", row |-> <<>>]
    ELSE insert_message(cs, id, clock, chat_id, text)

\* ChatService.get_chat_with_messages: the outcomes the store may produce
get_chat_with_messages(cs, ms, chat_id, limit, offset) ==
    IF get_chat_by_id(cs, chat_id) = <<>>
    THEN {[raised |-> TRUE, chat |-> <<>>, page |-> <<>>, orphans |-> {}]}
    ELSE {[raised |-> FALSE, chat |-> get_chat_by_id(cs, chat_id), page |-> page,
           orphans |-> delete_orphans(selectin_load(ms, chat_id), page)] :
            page \in messages_query(ms, chat_id, limit, offset)}

\* delete_chat without the lookup of the chat
delete_chat_NoExistenceCheck(cs, ms, chat_id) ==
    [deleted |-> TRUE, chats |-> Without(cs, chat_id),
     messages |-> CascadeDelete(ms, chat_id)]

\* ChatService.delete_chat
delete_chat(cs, ms, chat_id) ==
    IF get_chat_by_id(cs, chat_id) = <<>>
    THEN [deleted |-> FALSE, chats |-> cs, messages |-> ms]
    ELSE [deleted |-> TRUE, chats |-> Without(cs, chat_id),
          messages |-> CascadeDelete(ms, chat_id)]

\* an exception handler that reports a constraint violation as not-found
StatusOf_IntegrityAsNotFound(raised) ==
    CASE raised = "ChatNotFound" -> 404
      [] raised = "RequestValidationError" -> 422
      [] raised = "IntegrityError" -> 404
      [] raised = "OperationalError" -> 500

\* exception handlers of main.py: ChatNotFoundException carries 404,
\* RequestValidationError is answered 422, any SQLAlchemyError 500
StatusOf(raised) ==
    CASE raised = "ChatNotFound" -> 404
      [] raised = "RequestValidationError" -> 422
      [] raised = "IntegrityError" -> 500
      [] raised = "OperationalError" -> 500

\* the "detail" of the error bodies
DetailOf(raised) ==
    CASE raised = "ChatNotFound" -> "Chat with id not found"
      [] raised = "RequestValidationError" -> "errors"
      [] raised = "IntegrityError" -> "Internal server error"
      [] raised = "OperationalError" -> "Internal server error"

\* the response to a request whose handling raised
Failure(op, chat_id, raw, limit, offset, raised, svc, queries) ==
    [Response(op, chat_id, raw, limit, offset, StatusOf(raised), <<>>, <<>>, svc, queries)
        EXCEPT !.raised = raised, !.detail = DetailOf(raised)]

\* one more DeleteChat answered 204 for chat_id
Answered204(count, chat_id) ==
    (chat_id :> (IF chat_id \in DOMAIN count THEN count[chat_id] + 1 ELSE 1)) @@ count

\* -------------------------------------------------------------------- Init
Init ==
    /\ chats = <<>>
    /\ messages = {}
    /\ chat_seq = 0
    /\ msg_seq = 0
    /\ now = 0
    /\ last = NoRequest
    /\ posted = <<>>
    /\ deleted = <<>>
    /\ parsed = NoParse
    /\ txs = [r \in Slots |-> Idle]
    /\ ok204 = <<>>

\* the store's clock advances between requests
Tick ==
    /\ now < MaxTime
    /\ now' = now + 1
    /\ UNCHANGED <<chats, messages, chat_seq, msg_seq, last, posted, deleted, parsed, txs, ok204>>

\* POST /chats/ with a title of titles, while fewer than max chats were created
CreateChatUpTo(titles, max) ==
    \E raw \in titles :
        LET chat_data == ChatCreate(raw) IN
        IF ~chat_data.ok
        THEN /\ last' = Failure("CreateChat", 0, raw, 0, 0, "RequestValidationError", FALSE, 0)
             /\ UNCHANGED <<chats, messages, chat_seq, msg_seq, now, posted, deleted, parsed, txs, ok204>>
        ELSE /\ chat_seq < max
             /\ LET id == NextId(chat_seq)
                    chat == create_chat(id, now, chat_data.value)
                IN /\ chats' = get_db(chats, (id :> chat) @@ chats, FALSE)
                   /\ chat_seq' = id
                   /\ last' = Response("CreateChat", id, raw, 0, 0, 201, <<chat>>, <<>>, TRUE, 2)
             /\ UNCHANGED <<messages, msg_seq, now, posted, deleted, parsed, txs, ok204>>

\* POST /chats/ with a title of titles
CreateChatOf(titles) == CreateChatUpTo(titles, MaxChats)

\* POST /chats/
CreateChat == CreateChatOf(RawTitles)

\* POST /chats/{chat_id}/messages/
CreateMessage ==
    \E chat_id \in ChatIds, raw \in RawTexts :
        LET message_data == MessageCreate(raw) IN
        IF ~message_data.ok
        THEN /\ last' = Failure("CreateMessage", chat_id, raw, 0, 0, "RequestValidationError", FALSE, 0)
             /\ UNCHANGED <<chats, messages, chat_seq, msg_seq, now, posted, deleted, parsed, txs, ok204>>
        ELSE LET id == NextId(msg_seq)
                 res == create_message(chats, id, now, chat_id, message_data.value)
             IN IF res.raised = "ChatNotFound"
                THEN /\ last' = Failure("CreateMessage", chat_id, raw, 0, 0, res.raised, TRUE, 1)
                     /\ messages' = get_db(messages, messages, TRUE)
                     /\ UNCHANGED <<chats, chat_seq, msg_seq, now, posted, deleted, parsed, txs, ok204>>
                ELSE /\ msg_seq < MaxMsgs
                     /\ msg_seq' = id
                     /\ messages' = get_db(messages, messages \cup Range(res.row),
                                           res.raised # "none")
                     /\ posted' = Append(posted, IF res.raised = "none" THEN chat_id ELSE 0)
                     /\ last' = IF res.raised = "none"
                                THEN Reading(Response("CreateMessage", chat_id, raw, 0, 0, 201,
                                                      <<>>, res.row, TRUE, 4),
                                             selectin_load(messages, chat_id))
                                ELSE Failure("CreateMessage", chat_id, raw, 0, 0, res.raised, TRUE, 3)
                     /\ UNCHANGED <<chats, chat_seq, now, deleted, parsed, txs, ok204>>

\* GET /chats/{chat_id}?limit=&offset= with <<limit, offset>> of params
GetChatOf(params_set) ==
    \E chat_id \in ChatIds, params \in params_set :
        LET limit == params[1]
            offset == params[2]
        IN
        IF ~QueryParamsValid(limit, offset)
        THEN /\ last' = Failure("GetChat", chat_id, <<>>, limit, offset, "RequestValidationError", FALSE, 0)
             /\ UNCHANGED <<chats, messages, chat_seq, msg_seq, now, posted, deleted, parsed, txs, ok204>>
        ELSE \E res \in get_chat_with_messages(chats, messages, chat_id, limit, offset) :
             /\ last' = IF res.raised
                        THEN Failure("GetChat", chat_id, <<>>, limit, offset, "ChatNotFound", TRUE, 1)
                        ELSE Reading(Response("GetChat", chat_id, <<>>, limit, offset, 200,
                                              res.chat, res.page, TRUE, 3),
                                     selectin_load(messages, chat_id) \cup Range(res.page))
             \* the commit flushes chat.messages = page
             /\ messages' = get_db(messages, messages \ res.orphans, res.raised)
             /\ UNCHANGED <<chats, chat_seq, msg_seq, now, posted, deleted, parsed, txs, ok204>>

\* GET /chats/{chat_id}?limit=&offset=
GetChat == GetChatOf(PageParams)

\* DELETE /chats/{chat_id}
DeleteChat ==
    \E chat_id \in ChatIds :
        LET res == delete_chat(chats, messages, chat_id) IN
        \* if not deleted: raise ChatNotFoundException(chat_id)
        /\ last' = IF res.deleted
                   THEN Reading(Response("DeleteChat", chat_id, <<>>, 0, 0, 204,
                                         <<>>, <<>>, TRUE, 3),
                                selectin_load(messages, chat_id))
                   ELSE Failure("DeleteChat", chat_id, <<>>, 0, 0, "ChatNotFound", TRUE, 1)
        /\ chats' = get_db(chats, res.chats, ~res.deleted)
        /\ messages' = get_db(messages, res.messages, ~res.deleted)
        /\ deleted' = IF res.deleted
                      THEN (chat_id :> Cardinality(messages \ res.messages)) @@ deleted
                      ELSE deleted
        /\ ok204' = IF res.deleted THEN Answered204(ok204, chat_id) ELSE ok204
        /\ UNCHANGED <<chat_seq, msg_seq, now, posted, parsed, txs>>

Next ==
    \/ Tick
    \/ CreateChat
    \/ CreateMessage
    \/ GetChat
    \/ DeleteChat

Spec == Init /\ [][Next]_vars

\* ------------------------------------------------------ concurrent requests
\* Requests overlap: each has its own session and transaction (READ
\* COMMITTED), its statements are the steps, and its writes reach the store
\* when get_db commits.

InFlight(r) == txs[r].pc # "idle"

\* the row locks other transactions hold on chat chat_id: an uncommitted
\* DELETE of the chat, or an uncommitted INSERT whose foreign key references it
DeletePending(r, chat_id) ==
    \E q \in Slots \ {r} : txs[q].chat_id = chat_id /\ txs[q].del

InsertPending(r, chat_id) ==
    \E q \in Slots \ {r} : txs[q].chat_id = chat_id /\ txs[q].row # <<>>

\* the statements a request has issued when it stands at pc
QueriesAt(pc) ==
    CASE pc = "insert" -> 2
      [] pc = "refresh" -> 3
      [] pc = "delete" -> 2
      [] pc = "commit" -> 3

\* a DELETE whose commit removes the chat row alone
Pending_ChatRowOnly(r) ==
    [chats |-> IF txs[r].del THEN Without(chats, txs[r].chat_id) ELSE chats,
     messages |-> messages \cup Range(txs[r].row)]

\* the store as the transaction of slot r would commit it
Pending(r) ==
    [chats |-> IF txs[r].del THEN Without(chats, txs[r].chat_id) ELSE chats,
     messages |-> IF txs[r].del THEN CascadeDelete(messages, txs[r].chat_id)
                  ELSE messages \cup Range(txs[r].row)]

\* POST /chats/{chat_id}/messages/ up to the lookup of the chat
StartCreateMessage(r) ==
    /\ ~InFlight(r)
    /\ \E chat_id \in ChatIds, raw \in ConcTexts :
        LET message_data == MessageCreate(raw) IN
        IF ~message_data.ok
        THEN /\ last' = Failure("CreateMessage", chat_id, raw, 0, 0, "RequestValidationError", FALSE, 0)
             /\ UNCHANGED <<chats, messages, chat_seq, msg_seq, now, posted, deleted, parsed, txs, ok204>>
        ELSE IF get_chat_by_id(chats, chat_id) = <<>>
             THEN /\ last' = Failure("CreateMessage", chat_id, raw, 0, 0, "ChatNotFound", TRUE, 1)
                  /\ messages' = get_db(messages, messages, TRUE)
                  /\ UNCHANGED <<chats, chat_seq, msg_seq, now, posted, deleted, parsed, txs, ok204>>
             ELSE /\ txs' = [txs EXCEPT ![r] = [op |-> "CreateMessage", chat_id |-> chat_id,
                                                raw |-> raw, pc |-> "insert", ts |-> now,
                                                row |-> <<>>, del |-> FALSE]]
                  /\ UNCHANGED <<chats, messages, chat_seq, msg_seq, now, last, posted, deleted, parsed, ok204>>

\* db.add(message); await db.flush(): the INSERT waits for an uncommitted
\* DELETE of the chat and is then checked by the foreign key
InsertMessage(r) ==
    /\ txs[r].pc = "insert"
    /\ ~DeletePending(r, txs[r].chat_id)
    /\ msg_seq < MaxConcMsgs
    /\ LET id == NextId(msg_seq)
           res == insert_message(chats, id, txs[r].ts, txs[r].chat_id,
                                 MessageCreate(txs[r].raw).value)
       IN /\ msg_seq' = id
          /\ posted' = Append(posted, 0)
          /\ IF res.raised = "none"
             THEN /\ txs' = [txs EXCEPT ![r].pc = "refresh", ![r].row = res.row]
                  /\ UNCHANGED <<messages, last>>
             ELSE /\ txs' = [txs EXCEPT ![r] = Idle]
                  /\ messages' = get_db(messages, messages, TRUE)
                  /\ last' = Failure("CreateMessage", txs[r].chat_id, txs[r].raw, 0, 0,
                                     res.raised, TRUE, 3)
    /\ UNCHANGED <<chats, chat_seq, now, deleted, parsed, ok204>>

\* await db.refresh(message); return; get_db commits
CommitCreateMessage(r) ==
    /\ txs[r].pc = "refresh"
    /\ messages' = get_db(messages, Pending(r).messages, FALSE)
    /\ posted' = [posted EXCEPT ![txs[r].row[1].id] = txs[r].chat_id]
    /\ last' = Reading(Response("CreateMessage", txs[r].chat_id, txs[r].raw, 0, 0, 201,
                                <<>>, txs[r].row, TRUE, 4),
                       selectin_load(messages, txs[r].chat_id))
    /\ txs' = [txs EXCEPT ![r] = Idle]
    /\ UNCHANGED <<chats, chat_seq, msg_seq, now, deleted, parsed, ok204>>

\* DELETE /chats/{chat_id} up to the lookup of the chat
StartDeleteChat(r) ==
    /\ ~InFlight(r)
    /\ \E chat_id \in ChatIds :
        IF get_chat_by_id(chats, chat_id) = <<>>
        THEN /\ last' = Failure("DeleteChat", chat_id, <<>>, 0, 0, "ChatNotFound", TRUE, 1)
             /\ chats' = get_db(chats, chats, TRUE)
             /\ UNCHANGED <<messages, chat_seq, msg_seq, now, posted, deleted, parsed, txs, ok204>>
        ELSE /\ txs' = [txs EXCEPT ![r] = [op |-> "DeleteChat", chat_id |-> chat_id,
                                           raw |-> <<>>, pc |-> "delete", ts |-> now,
                                           row |-> <<>>, del |-> FALSE]]
             /\ UNCHANGED <<chats, messages, chat_seq, msg_seq, now, last, posted, deleted, parsed, ok204>>

\* await self.db.execute(delete(Chat).where(Chat.id == chat_id)): the
\* statement waits for the locks on the row, then removes the row if it is
\* still there; its row count is not looked at
DeleteStatement(r) ==
    /\ txs[r].pc = "delete"
    /\ ~DeletePending(r, txs[r].chat_id)
    /\ ~InsertPending(r, txs[r].chat_id)
    /\ txs' = [txs EXCEPT ![r].pc = "commit",
                          ![r].del = (txs[r].chat_id \in DOMAIN chats)]
    /\ UNCHANGED <<chats, messages, chat_seq, msg_seq, now, last, posted, deleted, parsed, ok204>>

\* return True; the router answers 204; get_db commits
CommitDeleteChat(r) ==
    /\ txs[r].pc = "commit"
    /\ chats' = get_db(chats, Pending(r).chats, FALSE)
    /\ messages' = get_db(messages, Pending(r).messages, FALSE)
    /\ deleted' = IF txs[r].del
                  THEN (txs[r].chat_id :> Cardinality(messages \ Pending(r).messages)) @@ deleted
                  ELSE deleted
    /\ ok204' = Answered204(ok204, txs[r].chat_id)
    /\ last' = Reading(Response("DeleteChat", txs[r].chat_id, <<>>, 0, 0, 204,
                                <<>>, <<>>, TRUE, 3),
                       selectin_load(messages, txs[r].chat_id))
    /\ txs' = [txs EXCEPT ![r] = Idle]
    /\ UNCHANGED <<chat_seq, msg_seq, now, posted, parsed>>

\* a statement of the request fails in the store (connection lost, timeout):
\* SQLAlchemyError, get_db rolls back, the handler of main.py answers
Fault(r) ==
    /\ InFlight(r)
    /\ chats' = get_db(chats, Pending(r).chats, TRUE)
    /\ messages' = get_db(messages, Pending(r).messages, TRUE)
    /\ last' = Failure(txs[r].op, txs[r].chat_id, txs[r].raw, 0, 0, "OperationalError",
                       TRUE, QueriesAt(txs[r].pc))
    /\ txs' = [txs EXCEPT ![r] = Idle]
    /\ UNCHANGED <<chat_seq, msg_seq, now, posted, deleted, parsed, ok204>>

\* the request is cancelled at an await: CancelledError passes get_db's
\* except clause, the session is closed without commit, nothing is answered
Cancel(r) ==
    /\ InFlight(r)
    /\ chats' = get_db(chats, Pending(r).chats, TRUE)
    /\ messages' = get_db(messages, Pending(r).messages, TRUE)
    /\ last' = [Response(txs[r].op, txs[r].chat_id, txs[r].raw, 0, 0, 0, <<>>, <<>>,
                         TRUE, QueriesAt(txs[r].pc))
                    EXCEPT !.raised = "CancelledError"]
    /\ txs' = [txs EXCEPT ![r] = Idle]
    /\ UNCHANGED <<chat_seq, msg_seq, now, posted, deleted, parsed, ok204>>

\* POST /chats/ while other requests are in flight
CreateChatConc == CreateChatOf(ConcTitles)

\* GET while other requests are in flight: the flush that deletes the
\* orphans waits for an uncommitted DELETE of the chat
GetChatConc ==
    /\ GetChatOf(ConcParams)
    /\ messages' # messages => ~DeletePending(0, last'.chat_id)

NextConc ==
    \/ CreateChatConc
    \/ GetChatConc
    \/ \E r \in Slots : StartCreateMessage(r)
    \/ \E r \in Slots : InsertMessage(r)
    \/ \E r \in Slots : CommitCreateMessage(r)
    \/ \E r \in Slots : StartDeleteChat(r)
    \/ \E r \in Slots : DeleteStatement(r)
    \/ \E r \in Slots : CommitDeleteChat(r)
    \/ \E r \in Slots : Fault(r)
    \/ \E r \in Slots : Cancel(r)

SpecConc == Init /\ [][NextConc]_vars

\* --------------------------------------------- chats created after deletes
\* The requests one after another, with chats created after others were
\* deleted.

\* POST /chats/, also after a DeleteChat
CreateChatAgain == CreateChatUpTo(ConcTitles, MaxIdChats)

\* GET /chats/{chat_id} of old and new chats
GetChatAgain == GetChatOf(ConcParams)

NextIds ==
    \/ CreateChatAgain
    \/ CreateMessage
    \/ GetChatAgain
    \/ DeleteChat

SpecIds == Init /\ [][NextIds]_vars

\* ------------------------------------------------- schema validation alone
\* ChatCreate(title=raw), as the request parsing and the unit tests call it
ParseTitle ==
    \E raw \in GenStrings(TitleMax) :
        LET res == ChatCreate(raw) IN
        /\ parsed' = [field |-> "title", raw |-> raw, ok |-> res.ok, value |-> res.value]
        /\ UNCHANGED <<chats, messages, chat_seq, msg_seq, now, last, posted, deleted, txs, ok204>>

\* MessageCreate(text=raw)
ParseText ==
    \E raw \in GenStrings(TextMax) :
        LET res == MessageCreate(raw) IN
        /\ parsed' = [field |-> "text", raw |-> raw, ok |-> res.ok, value |-> res.value]
        /\ UNCHANGED <<chats, messages, chat_seq, msg_seq, now, last, posted, deleted, txs, ok204>>

NextValidate ==
    \/ ParseTitle
    \/ ParseText

SpecValidate == Init /\ [][NextValidate]_vars

\* ------------------------------------------------------------------ claims
\* a step of Spec that serves a request: every handler leaves the clock alone
\* and Tick is the only other step
IsRequest == now' = now

\* the number of messages created with 201 in chat c
Posted(c) == Cardinality({i \in 1..Len(posted) : posted[i] = c})

IsTrimmed(s) == s = <<>> \/ (~isspace(Head(s).c) /\ ~isspace(s[Len(s)].c))

\* C1: a stored message leaves the store only by a successful DeleteChat of
\* its own chat; no GetChat, CreateChat or CreateMessage request removes one.
C1_OnlyDeleteChatRemovesMessages ==
    [][\A m \in messages :
          m \notin messages' =>
              /\ last'.op = "DeleteChat"
              /\ last'.status = 204
              /\ last'.chat_id = m.chat_id]_vars

\* C2: a GetChat with valid limit k and offset o on an existing chat in which
\* N messages were created answers 200 with exactly min(k, max(N - o, 0))
\* messages, all of that chat, whatever requests were served before.
C2_PageHasExpectedSize ==
    [][(/\ IsRequest
        /\ last'.op = "GetChat"
        /\ QueryParamsValid(last'.limit, last'.offset)
        /\ last'.chat_id \in DOMAIN chats)
       => (/\ last'.status = 200
           /\ Len(last'.messages)
                = Min(last'.limit, Max(Posted(last'.chat_id) - last'.offset, 0))
           /\ \A i \in 1..Len(last'.messages) :
                 last'.messages[i].chat_id = last'.chat_id)]_vars

\* C3: every page returned by GetChat lists the messages newest first, in
\* the reverse of their posting order (a message posted later has the larger
\* id), also when their created_at values are equal.
C3_PageInReversePostingOrder ==
    (last.op = "GetChat" /\ last.status = 200)
    => \A i, j \in 1..Len(last.messages) :
          i < j => last.messages[i].id > last.messages[j].id

\* a text or title that is invalid on any reading: nothing left after
\* trimming, or longer than the limit
InvalidTitle(raw) == strip(raw) = <<>> \/ StrLen(raw) > TitleMax
InvalidText(raw) == strip(raw) = <<>> \/ StrLen(raw) > TextMax

\* a text that is valid on any reading: within the limit as sent, and not
\* empty after trimming
ValidText(raw) == strip(raw) # <<>> /\ StrLen(raw) <= TextMax

\* C4: once DeleteChat answered 204 for a chat, the chat is not stored, no
\* stored message has its chat_id, and every later GetChat or CreateMessage
\* for that id that reaches the orchestration layer is answered 404 (none
\* is answered 200 or 201).
C4_DeletedChatStaysGone ==
    \A c \in DOMAIN deleted :
        /\ c \notin DOMAIN chats
        /\ \A m \in messages : m.chat_id # c
        /\ (last.chat_id = c /\ last.op \in {"GetChat", "CreateMessage"})
              => (last.status \notin {200, 201} /\ (last.svc => last.status = 404))

\* a chat deleted together with messages, then asked for again
C4_Witness ==
    \E c \in DOMAIN deleted :
        /\ deleted[c] > 0
        /\ last.op = "GetChat"
        /\ last.chat_id = c
        /\ last.status = 404

\* C5: DeleteChat for an id that is not stored is answered 404 and leaves
\* the chats and the messages as they were.
C5_DeleteMissingChatChangesNothing ==
    [][(IsRequest /\ last'.op = "DeleteChat" /\ last'.chat_id \notin DOMAIN chats)
       => (/\ last'.status = 404
           /\ chats' = chats
           /\ messages' = messages
           /\ deleted' = deleted)]_vars

C5_Witness ==
    /\ last.op = "DeleteChat"
    /\ last.status = 404
    /\ chats # <<>>
    /\ messages # {}

\* C6: CreateMessage with a valid text for an id that is not stored is
\* answered 404 and inserts no row: chats and messages stay as they were.
C6_MessageForMissingChatRejected ==
    [][(/\ IsRequest
        /\ last'.op = "CreateMessage"
        /\ ValidText(last'.raw)
        /\ last'.chat_id \notin DOMAIN chats)
       => (/\ last'.status = 404
           /\ messages' = messages
           /\ chats' = chats
           /\ posted' = posted)]_vars

C6_Witness ==
    /\ last.op = "CreateMessage"
    /\ ValidText(last.raw)
    /\ last.status = 404
    /\ messages # {}

\* C7: CreateMessage with an invalid text is answered 422 whether or not the
\* chat exists, never 404, and no chat lookup (no store query) is made.
C7_TextValidatedBeforeLookup ==
    [][(IsRequest /\ last'.op = "CreateMessage" /\ InvalidText(last'.raw))
       => (last'.status = 422 /\ last'.queries = 0)]_vars

\* an invalid text sent to an id that is not stored
C7_Witness ==
    /\ last.op = "CreateMessage"
    /\ InvalidText(last.raw)
    /\ last.chat_id \notin DOMAIN chats
    /\ last.status = 422

\* C8: acceptance depends only on the length L of the trimmed string: with
\* 1 <= L <= max the string is accepted and the result is the trimmed
\* string, whatever the length of the raw string; L = 0 and L = max + 1 are
\* rejected.
C8_AcceptanceByTrimmedLength ==
    parsed.field \in {"title", "text"}
    => LET max == IF parsed.field = "title" THEN TitleMax ELSE TextMax
           L == StrLen(strip(parsed.raw))
       IN /\ (1 <= L /\ L <= max) => (parsed.ok /\ parsed.value = strip(parsed.raw))
          /\ (L = 0 \/ L = max + 1) => ~parsed.ok

\* C9: every stored title and text is trimmed, not empty and within its
\* limit, and the value persisted by a create request is the trimmed form of
\* the input.
C9_StoredStringsAreTrimmed ==
    /\ \A c \in DOMAIN chats :
          /\ IsTrimmed(chats[c].title)
          /\ StrLen(chats[c].title) >= 1
          /\ StrLen(chats[c].title) <= TitleMax
    /\ \A m \in messages :
          /\ IsTrimmed(m.text)
          /\ StrLen(m.text) >= 1
          /\ StrLen(m.text) <= TextMax
    /\ (last.op = "CreateChat" /\ last.status = 201 /\ last.chat_id \in DOMAIN chats)
          => chats[last.chat_id].title = strip(last.raw)
    /\ (last.op = "CreateMessage" /\ last.status = 201)
          => \A m \in Range(last.messages) :
                m.text = strip(last.raw) /\ (m \in messages \/ m.id \notin {x.id : x \in messages})

\* a chat stored from a title sent with surrounding whitespace
C9_Witness ==
    /\ last.op = "CreateChat"
    /\ last.status = 201
    /\ last.raw # strip(last.raw)
    /\ last.chat_id \in DOMAIN chats

\* C10: a CreateChat or CreateMessage whose title or text fails validation is
\* answered 422 without a call of the orchestration layer or a store query,
\* and neither table nor sequence changes.
C10_InvalidBodyNeverReachesStore ==
    [][(/\ IsRequest
        /\ \/ last'.op = "CreateChat" /\ InvalidTitle(last'.raw)
           \/ last'.op = "CreateMessage" /\ InvalidText(last'.raw))
       => (/\ last'.status = 422
           /\ ~last'.svc
           /\ last'.queries = 0
           /\ chats' = chats
           /\ messages' = messages
           /\ chat_seq' = chat_seq
           /\ msg_seq' = msg_seq)]_vars

\* a whitespace-only title sent while chats are stored
C10_Witness ==
    /\ last.op = "CreateChat"
    /\ strip(last.raw) = <<>>
    /\ last.status = 422
    /\ chats # <<>>

\* C11: a GetChat with limit outside [1,100] or offset < 0 is answered 422
\* before any store query, for stored and missing chat ids alike, and leaves
\* the store unchanged.
C11_BadPageParamsRejectedFirst ==
    [][(/\ IsRequest
        /\ last'.op = "GetChat"
        /\ (last'.limit < 1 \/ last'.limit > 100 \/ last'.offset < 0))
       => (/\ last'.status = 422
           /\ last'.queries = 0
           /\ last'.read = {}
           /\ chats' = chats
           /\ messages' = messages)]_vars

\* limit 101 asked of a stored chat that has messages
C11_Witness ==
    /\ last.op = "GetChat"
    /\ last.limit > 100
    /\ last.chat_id \in DOMAIN chats
    /\ messages # {}
    /\ last.status = 422

\* C13: a GetChat on a chat that was created and not deleted answers 200 with
\* that chat, and with offset 0 and a limit that covers them it contains
\* every message created with 201 in the chat.
C13_ReadObservesCommittedWrites ==
    [][(/\ IsRequest
        /\ last'.op = "GetChat"
        /\ QueryParamsValid(last'.limit, last'.offset)
        /\ last'.chat_id \in DOMAIN chats)
       => (/\ last'.status = 200
           /\ last'.chat = <<chats[last'.chat_id]>>
           /\ (last'.offset = 0 /\ last'.limit >= Posted(last'.chat_id))
                 => \A i \in 1..Len(posted) :
                       posted[i] = last'.chat_id
                          => \E k \in 1..Len(last'.messages) : last'.messages[k].id = i)]_vars

\* C16: the message rows read from the store while serving a GetChat are the
\* rows of the returned page, at most limit of them.
C16_OnlyThePageIsRead ==
    (last.op = "GetChat" /\ last.status = 200)
    => /\ last.read = {m.id : m \in Range(last.messages)}
       /\ Cardinality(last.read) <= last.limit

\* C18: validating the result of an accepted validation accepts it again and
\* returns it unchanged.
C18_ValidationIdempotent ==
    /\ (parsed.field = "title" /\ parsed.ok)
          => ChatCreate(parsed.value) = Accepted(parsed.value)
    /\ (parsed.field = "text" /\ parsed.ok)
          => MessageCreate(parsed.value) = Accepted(parsed.value)

\* an accepted input that validation changed
C18_Witness ==
    /\ parsed.ok
    /\ parsed.value # parsed.raw

C14_NoOrphanMessages ==
    /\ \A m \in messages : m.chat_id \in DOMAIN chats
    /\ (last.op = "CreateMessage" /\ last.status = 201) =>
            /\ last.messages[1] \in messages
            /\ last.chat_id \in DOMAIN chats

\* a CreateMessage passed its existence check, a DeleteChat of the chat
\* committed, and the insert then failed
C14_Witness ==
    /\ last.op = "CreateMessage"
    /\ last.raised = "IntegrityError"
    /\ last.chat_id \in DOMAIN deleted
    /\ messages = {}

\* C15: the store changes only in the step in which a handler has completed
\* without raising; a request that raised or was cancelled leaves the store
\* as it was
C15_CommitOnlyOnSuccess ==
    [][ (chats' # chats \/ messages' # messages) =>
            (last'.raised = "none" /\ last'.status \in {200, 201, 204}) ]_vars

\* a CreateMessage was cancelled after its INSERT had been flushed, and its
\* row is not in the store
C15_Witness ==
    /\ last.op = "CreateMessage"
    /\ last.raised = "CancelledError"
    /\ last.queries = 3
    /\ msg_seq > 0
    /\ \A m \in messages : m.id # msg_seq

C20_AtMostOneDeleteSucceeds ==
    \A c \in DOMAIN ok204 : ok204[c] <= 1

\* C21: ids are unique among the stored rows and never handed out again: a
\* chat created with 201 gets an id that no stored and no deleted chat has,
\* a message created with 201 gets an id that no message ever had, and a
\* GetChat answered 200 is for a chat that was not deleted and returns only
\* messages that were created for that chat
C21_IdsNeverReused ==
    [][ /\ \A m1 \in messages' : \A m2 \in messages' : m1.id = m2.id => m1 = m2
        /\ (last' # last /\ last'.op = "CreateChat" /\ last'.status = 201) =>
              /\ last'.chat_id \notin DOMAIN chats
              /\ last'.chat_id \notin DOMAIN deleted
              /\ last'.chat_id \in DOMAIN chats'
        /\ (last' # last /\ last'.op = "CreateMessage" /\ last'.status = 201) =>
              /\ last'.messages[1].id \notin {m.id : m \in messages}
              /\ last'.messages[1].id \notin 1..Len(posted)
        /\ (last'.op = "GetChat" /\ last'.status = 200) =>
              /\ last'.chat_id \notin DOMAIN deleted'
              /\ \A i \in 1..Len(last'.messages) :
                    posted'[last'.messages[i].id] = last'.chat_id ]_vars

\* a chat with messages was deleted and a chat has just been created
C21_Witness ==
    /\ last.op = "CreateChat"
    /\ last.status = 201
    /\ last.chat_id \in DOMAIN chats
    /\ \E c \in DOMAIN deleted :
          /\ deleted[c] > 0
          /\ c # last.chat_id

====
